---- MODULE Spec2Model ----
(***************************************************************************)
(* Model of the LiveSession component (streaming voice session): the       *)
(* connection callbacks onopen / onmessage / onclose / onerror, the        *)
(* playback scheduling on the output timeline, the transcript assembly     *)
(* with its thought-stripping filter, the turn counter and the completion  *)
(* gate, the capture pipeline with the microphone toggle, the session      *)
(* promise through which everything is sent, and the watchdog timer.       *)
(*                                                                         *)
(* Time is counted in integer ticks of the output audio clock.  Strings    *)
(* are sequences of one-character strings; the reasoning marker and the    *)
(* delimiter are two-character stand-ins of the literals of the source, so *)
(* that either can be cut in the middle by a fragment boundary.            *)
(***************************************************************************)
EXTENDS Integers, Sequences, FiniteSets, TLC

VARIABLES
    connectionState,  \* useState<ConnectionState>
    isThinking,       \* useState(false)
    messages,         \* useState<ChatMessage[]>
    needsInteraction, \* useState(false)
    turnCount,        \* useState(0)
    cleanup,          \* the `cleanup` flag of the session effect
    transport,        \* the remote connection: connecting/open/errored/closed
    openPc,           \* position of the async onopen handler
    outState,         \* outputContextRef.current.state
    inState,          \* inputContextRef.current.state
    micStream,        \* streamRef.current: none / live / stopped; denied
                      \* when getUserMedia has rejected
    settleTimer,      \* the 500 ms setTimeout of onopen is pending
    wakes,            \* wake stimuli sent by triggerModel
    nextStartTime,    \* nextStartTimeRef.current
    sources,          \* sourcesRef.current: the segments, each with its end time
    pending,          \* onmessage handlers suspended at `await decodeAudioData`
    clock,            \* outputContextRef.current.currentTime
    wallClock,        \* Date.now()
    completed,        \* onComplete has been called
    nsegs,            \* history: number of segments handed to source.start
    lastSched,        \* history: the last call of source.start, and before it
    chainEnd,         \* history: { end of the last segment since the last flush }
    stoppedSegs,      \* history: segments on which stop() was called
    flushedSegs,      \* history: segments stopped by an interrupted branch
    endedSegs,        \* history: segments whose onended has run
    rawText,          \* history: per message, the fragments received, unfiltered
    tcReceived,       \* history: turnComplete messages whose handler has ended
    turn,             \* history: the fragments handled in the current turn
    flushes,          \* history: the interrupted branches executed
    isMicOn,          \* useState(true)
    isMicOnRef,       \* isMicOnRef.current
    processor,        \* the onaudioprocess callback installed on the processor
    sessionResolved,  \* sessionPromiseRef.current has resolved
    thenQueue,        \* callbacks waiting on sessionPromiseRef.current
    sent,             \* calls of session.sendRealtimeInput, in order
    frames,           \* history: invocations of onaudioprocess
    mutedFrames,      \* history: the frames captured while isMicOn was false
    earlyFrames,      \* history: the frames captured before the session resolved
    watchdog,         \* the 4 s timer of the watchdog effect
    fires,            \* history: expiries of the watchdog timer
    sinceActivity,    \* history: { time since the last inbound activity }
    userProfile,      \* App: the progress lists of userProfile
    activeSession     \* App: activeSession, {} for null

micVars == << isMicOn, isMicOnRef, processor >>
sendVars == << sessionResolved, thenQueue, sent, frames, mutedFrames,
              earlyFrames >>
watchVars == << watchdog, fires, sinceActivity >>
appVars == << userProfile, activeSession >>

vars == << connectionState, isThinking, messages, needsInteraction, turnCount,
           cleanup, transport, openPc, outState, inState, micStream,
           settleTimer, wakes, nextStartTime, sources, pending, clock,
           wallClock, completed, nsegs, lastSched, chainEnd, stoppedSegs,
           flushedSegs, endedSegs, rawText,
           tcReceived, turn, flushes, micVars, sendVars, watchVars, appVars >>

connVars == << connectionState, needsInteraction, transport, openPc,
               micStream, settleTimer, wakes >>
ctxVars == << outState, inState >>
playVars == << nextStartTime, sources, nsegs, lastSched, chainEnd,
              stoppedSegs, flushedSegs, endedSegs, flushes >>
textVars == << messages, rawText, turn >>

----------------------------------------------------------------------------
(* Bounds of the model.                                                    *)

MaxTurns == 4      \* turn-complete signals counted
MaxChars == 5      \* characters of transcript received
MaxPending == 1    \* onmessage handlers suspended at the decode
MaxInFlight == 2   \* the same where the order of the decodes is at stake
MaxSegs == 4       \* segments scheduled
MaxClock == 2      \* ticks of the output clock
MaxFrames == 3     \* microphone frames captured
MaxWakes == 3      \* wake stimuli sent
MaxWall == 2       \* milliseconds of the wall clock

CompleteThreshold == 3
WatchdogDelay == 4 \* the 4000 ms of the watchdog, in seconds

----------------------------------------------------------------------------
(* Strings.                                                                *)

ThoughtPrefix == << "#", "t" >>    \* stands for the marker '... thought'
CtrlDelim == << "<", ">" >>        \* stands for '<ctrl95>'
Whitespace == { " " }

StartsWith(s, p) ==
    /\ Len(s) >= Len(p)
    /\ SubSeq(s, 1, Len(p)) = p

\* first index at which d occurs in s, 0 when it does not occur
IndexOf(s, d) ==
    LET hits == { i \in 1..(Len(s) - Len(d) + 1) : SubSeq(s, i, i + Len(d) - 1) = d }
    IN  IF hits = {} THEN 0 ELSE CHOOSE i \in hits : \A j \in hits : i <= j

RECURSIVE Split(_, _)
Split(s, d) ==
    LET i == IndexOf(s, d)
    IN  IF i = 0 THEN << s >>
        ELSE << SubSeq(s, 1, i - 1) >> \o Split(SubSeq(s, i + Len(d), Len(s)), d)

RECURSIVE Join(_, _)
Join(parts, d) ==
    IF Len(parts) = 0 THEN << >>
    ELSE IF Len(parts) = 1 THEN parts[1]
    ELSE parts[1] \o d \o Join(Tail(parts), d)

RECURSIVE TrimStart(_)
TrimStart(s) ==
    IF Len(s) > 0 /\ s[1] \in Whitespace THEN TrimStart(Tail(s)) ELSE s

RECURSIVE TrimEnd(_)
TrimEnd(s) ==
    IF Len(s) > 0 /\ s[Len(s)] \in Whitespace
    THEN TrimEnd(SubSeq(s, 1, Len(s) - 1)) ELSE s

Trim(s) == TrimEnd(TrimStart(s))

cleanText(text) ==
    IF StartsWith(text, ThoughtPrefix)
    THEN LET split == Split(text, CtrlDelim)
         IN  IF Len(split) > 1 THEN Trim(Join(Tail(split), CtrlDelim)) ELSE << >>
    ELSE text

----------------------------------------------------------------------------
(* Transcript assembly: the updater passed to setMessages.                 *)

NoText == << >>

\* Number.prototype.toString of a non-negative integer: its decimal digits
Digit == << "0", "1", "2", "3", "4", "5", "6", "7", "8", "9" >>

RECURSIVE toString(_)
toString(n) ==
    IF n < 10 THEN << Digit[n + 1] >>
    ELSE toString(n \div 10) \o << Digit[(n % 10) + 1] >>

\* { id: Date.now().toString(), role, text, isPartial: true }
NewMessage(role, text, now) ==
    [id |-> toString(now), role |-> role, text |-> text, isPartial |-> TRUE]

\* the test `lastMsg && lastMsg.role === role && lastMsg.isPartial`
AppendsToLast_ignoresPartial(msgs, role) ==
    /\ Len(msgs) > 0
    /\ msgs[Len(msgs)].role = role

AppendsToLast(msgs, role) ==
    /\ Len(msgs) > 0
    /\ msgs[Len(msgs)].role = role
    /\ msgs[Len(msgs)].isPartial

WithInput(msgs, inputTrans, now) ==
    IF inputTrans = NoText THEN msgs
    ELSE IF AppendsToLast(msgs, "user")
         THEN [msgs EXCEPT ![Len(msgs)].text = @ \o inputTrans]
         ELSE Append(msgs, NewMessage("user", inputTrans, now))

WithOutput(msgs, outputTrans, now) ==
    IF outputTrans = NoText THEN msgs
    ELSE IF AppendsToLast(msgs, "model")
         THEN [msgs EXCEPT ![Len(msgs)].text = cleanText(@ \o outputTrans)]
         ELSE Append(msgs, NewMessage("model", cleanText(outputTrans), now))

WithTurnComplete(msgs, turnComplete) ==
    IF turnComplete /\ Len(msgs) > 0
    THEN [msgs EXCEPT ![Len(msgs)].isPartial = FALSE]
    ELSE msgs

UpdateMessages(prev, m, now) ==
    WithTurnComplete(
        WithOutput(WithInput(prev, m.inputTrans, now), m.outputTrans, now),
        m.turnComplete)

\* the message state after the handler: setMessages runs only for a message
\* that carries a transcript fragment
MessagesAfter(prev, m, now) ==
    IF m.inputTrans /= NoText \/ m.outputTrans /= NoText
    THEN UpdateMessages(prev, m, now)
    ELSE prev

\* history: the unfiltered text of each message, kept beside `messages`
RawStep(msgs, raws, role, frag) ==
    IF frag = NoText THEN raws
    ELSE IF AppendsToLast(msgs, role)
         THEN [raws EXCEPT ![Len(raws)] = @ \o frag]
         ELSE Append(raws, frag)

RawAfter(prev, raws, m, now) ==
    RawStep(WithInput(prev, m.inputTrans, now),
            RawStep(prev, raws, "user", m.inputTrans),
            "model", m.outputTrans)

\* history: the roles and the text of the fragments handled since the last
\* turn-complete signal, and the length of the transcript when they began
TurnAfter(t, prev, m) ==
    LET begun == IF t.done
                 THEN [roles |-> {}, text |-> NoText, base |-> Len(prev),
                       done |-> FALSE]
                 ELSE t
        withIn == IF m.inputTrans = NoText THEN begun
                  ELSE [begun EXCEPT !.roles = @ \cup { "user" },
                                     !.text = @ \o m.inputTrans]
        withOut == IF m.outputTrans = NoText THEN withIn
                   ELSE [withIn EXCEPT !.roles = @ \cup { "model" },
                                       !.text = @ \o m.outputTrans]
    IN  [withOut EXCEPT !.done = m.turnComplete]

----------------------------------------------------------------------------
(* Playback scheduling.                                                    *)

NoAudio == 0     \* the message carries no inlineData
BadAudio == -1   \* a payload decodeAudioData rejects

\* `if (nextStartTime < currentTime) nextStartTime = currentTime`
StartTime_noCatchUp(nst, currentTime) == nst

StartTime(nst, currentTime) ==
    IF nst < currentTime THEN currentTime ELSE nst

\* `nextStartTimeRef.current += buffer.duration`
NextCursor_dropsDuration(start, duration) == start

NextCursor(start, duration) == start + duration

\* the interrupted branch: sourcesRef.current.clear()
ActiveAfter_keepsOlder(srcs, interrupted) ==
    IF interrupted /\ srcs /= {}
    THEN srcs \ { CHOOSE s \in srcs : \A t \in srcs : t.id <= s.id }
    ELSE srcs

ActiveAfter(srcs, interrupted) ==
    IF interrupted THEN {} ELSE srcs

\* the interrupted branch: nextStartTimeRef.current = 0
CursorAfter(nst, interrupted) ==
    IF interrupted THEN 0 ELSE nst

----------------------------------------------------------------------------
(* The watchdog effect and triggerModel.  Timers run on wall time, counted *)
(* in seconds; a render and the effects it schedules are one step with the *)
(* handler that set the state (state updates of one handler are batched).  *)

Disarmed == [armed |-> FALSE, elapsed |-> 0]
Armed == [armed |-> TRUE, elapsed |-> 0]

\* the effect of lines 72-83, which runs when isThinking has changed: its
\* cleanup clears the timer, its body sets a new one if isThinking is true;
\* the unmount runs the cleanup only
WatchdogAfter(wd, was, is, unmounted) ==
    IF unmounted THEN Disarmed
    ELSE IF was = is THEN wd
    ELSE IF is THEN Armed ELSE Disarmed

\* what is handed to the session promise, besides the microphone frames
\* (which are numbered from 1 in capture order)
Wake == 0      \* session => triggerModel(session)
Close == -1    \* s => s.close()

Count(q, c) == Cardinality({ i \in 1..Len(q) : q[i] = c })

\* `sessionPromiseRef.current?.then(session => triggerModel(session))`, with
\* wd the timer state the caller leaves behind
TriggerModel(wd) ==
    IF sessionResolved
    THEN /\ sent' = Append(sent, Wake)
         /\ wakes' = wakes + 1
         /\ isThinking' = TRUE
         /\ watchdog' = WatchdogAfter(wd, isThinking, TRUE, cleanup)
         /\ UNCHANGED thenQueue
    ELSE /\ thenQueue' = Append(thenQueue, Wake)
         /\ watchdog' = wd
         /\ UNCHANGED << sent, wakes, isThinking >>

----------------------------------------------------------------------------
(* onmessage.                                                              *)

\* lines 208-256, run with the values the audio branch left behind
Ids(srcs) == { s.id : s \in srcs }

\* history: no segment has been scheduled since the last flush
NoSegment == {}

\* history: the handlers of q whose message arrived before arrival number n
\* have seen an interruption handled while they were suspended
Overtaken(q, n) ==
    [ j \in 1..Len(q) |->
        IF q[j].seq < n THEN [ q[j] EXCEPT !.flushed = TRUE ] ELSE q[j] ]

\* `others` are the handlers suspended at line 182 while this one runs, and
\* n the arrival number of the message this one handles
Rest(m, thinking, srcs, nst, cend, others, n) ==
    /\ sources' = ActiveAfter(srcs, m.interrupted)
    /\ pending' = IF m.interrupted THEN Overtaken(others, n) ELSE others
    /\ stoppedSegs' = IF m.interrupted THEN stoppedSegs \cup Ids(srcs)
                                        ELSE stoppedSegs
    /\ flushedSegs' = IF m.interrupted THEN flushedSegs \cup Ids(srcs)
                                        ELSE flushedSegs
    /\ endedSegs' = endedSegs
    /\ nextStartTime' = CursorAfter(nst, m.interrupted)
    /\ chainEnd' = IF m.interrupted THEN NoSegment ELSE cend
    /\ flushes' = IF m.interrupted
                  THEN [parity |-> 1 - flushes.parity, found |-> Cardinality(srcs)]
                  ELSE flushes
    /\ isThinking' = IF m.inputTrans /= NoText THEN TRUE
                     ELSE IF m.interrupted \/ m.turnComplete THEN FALSE
                     ELSE thinking
    /\ watchdog' = WatchdogAfter(watchdog, isThinking, isThinking', cleanup)
    /\ turnCount' = IF m.turnComplete THEN turnCount + 1 ELSE turnCount
    /\ tcReceived' = IF m.turnComplete THEN tcReceived + 1 ELSE tcReceived
    /\ messages' = MessagesAfter(messages, m, wallClock)
    /\ rawText' = RawAfter(messages, rawText, m, wallClock)
    /\ turn' = TurnAfter(turn, messages, m)

RECURSIVE TotalLen(_)
TotalLen(raws) ==
    IF Len(raws) = 0 THEN 0 ELSE Len(raws[1]) + TotalLen(Tail(raws))

\* what keeps the model finite: the characters the transcript has received
WithinBounds(m) ==
    TotalLen(RawAfter(messages, rawText, m, wallClock)) <= MaxChars

\* turn-complete signals handled or held by a suspended handler
TurnsInFlight ==
    tcReceived + Cardinality({ i \in 1..Len(pending) : pending[i].turnComplete })

\* history: the message carries audio or a transcript fragment
IsActivity(m) ==
    m.audio /= NoAudio \/ m.inputTrans /= NoText \/ m.outputTrans /= NoText

\* history: the arrival number of the next message that carries audio, one
\* more than that of every message suspended or scheduled so far
NextArrival ==
    LET known == { pending[i].seq : i \in 1..Len(pending) }
                 \cup { h.seq : h \in lastSched.top }
    IN  IF known = {} THEN 1
        ELSE 1 + CHOOSE n \in known : \A k \in known : k <= n

\* a handler suspended at line 182: the message it holds, with its number
Suspended(m, n) ==
    [audio |-> m.audio, interrupted |-> m.interrupted,
     inputTrans |-> m.inputTrans, outputTrans |-> m.outputTrans,
     turnComplete |-> m.turnComplete, seq |-> n, flushed |-> FALSE]

\* history: of the segments scheduled, the one whose message arrived last
TopAfter(top, seq, start) ==
    IF \E h \in top : h.seq > seq THEN top
    ELSE { [seq |-> seq, start |-> start] }

\* a message arrives; the handler runs to its end, or to the await of line 182
OnMessage(m) ==
    /\ transport = "open"
    /\ ~cleanup
    /\ m.turnComplete => TurnsInFlight < MaxTurns
    /\ IF m.audio /= NoAudio
       THEN /\ isThinking' = FALSE
            /\ watchdog' = WatchdogAfter(watchdog, isThinking, FALSE, cleanup)
            /\ pending' = Append(pending, Suspended(m, NextArrival))
            /\ UNCHANGED << playVars, textVars, turnCount, tcReceived >>
       ELSE /\ WithinBounds(m)
            /\ Rest(m, isThinking, sources, nextStartTime, chainEnd,
                    pending, NextArrival)
            /\ UNCHANGED << nsegs, lastSched >>
    /\ sinceActivity' = IF IsActivity(m) THEN { 0 } ELSE sinceActivity
    /\ UNCHANGED << connVars, ctxVars, cleanup, clock, wallClock, appVars, completed,
                    micVars, sendVars, fires >>

RemoveAt(q, i) == SubSeq(q, 1, i - 1) \o SubSeq(q, i + 1, Len(q))

\* the decode of a suspended handler settles: a rejection ends the handler,
\* a buffer is scheduled and the handler runs on through lines 184-256
DecodeSettled(i) ==
    /\ i \in 1..Len(pending)
    /\ LET m == pending[i]
       IN  IF m.audio = BadAudio
           THEN /\ tcReceived' = IF m.turnComplete THEN tcReceived + 1 ELSE tcReceived
                /\ pending' = RemoveAt(pending, i)
                /\ UNCHANGED << playVars, textVars, turnCount, isThinking,
                                watchdog >>
           ELSE /\ nsegs < MaxSegs
                /\ WithinBounds(m)
                /\ LET start == StartTime(nextStartTime, clock)
                       seg == [id |-> nsegs + 1, end |-> start + m.audio]
                   IN  /\ nsegs' = nsegs + 1
                       /\ lastSched' = [start |-> start, dur |-> m.audio,
                                        at |-> clock, after |-> chainEnd,
                                        seq |-> m.seq, stale |-> m.flushed,
                                        over |-> lastSched.top,
                                        top |-> TopAfter(lastSched.top, m.seq,
                                                         start)]
                       /\ Rest(m, isThinking, sources \cup { seg },
                               NextCursor(start, m.audio), { seg.end },
                               RemoveAt(pending, i), m.seq)
    /\ UNCHANGED << connVars, ctxVars, cleanup, clock, wallClock, appVars, completed,
                    micVars, sendVars, fires, sinceActivity >>

----------------------------------------------------------------------------
(* The curriculum and the progress of the user.  An id is the sequence of  *)
(* the parts that its hyphens separate, so that joining two ids with a     *)
(* hyphen is the concatenation of their parts.                             *)

LastOrder == 6

STANDARD_STEPS ==
    << [id |-> << "step", "1" >>, order |-> 1],
       [id |-> << "step", "2" >>, order |-> 2],
       [id |-> << "step", "3" >>, order |-> 3],
       [id |-> << "step", "4" >>, order |-> 4],
       [id |-> << "step", "5" >>, order |-> 5],
       [id |-> << "step", "6" >>, order |-> 6] >>

StandardSubject(id) == [id |-> id, steps |-> STANDARD_STEPS]

CURRICULUM ==
    << [id |-> "A1",
        subjects |-> << StandardSubject(<< "a1", "intro" >>),
                        StandardSubject(<< "a1", "greetings" >>),
                        StandardSubject(<< "a1", "numbers" >>),
                        StandardSubject(<< "a1", "family" >>),
                        StandardSubject(<< "a1", "food" >>),
                        StandardSubject(<< "a1", "routine" >>),
                        StandardSubject(<< "a1", "places" >>),
                        StandardSubject(<< "a1", "shopping" >>) >>],
       [id |-> "A2",
        subjects |-> << StandardSubject(<< "a2", "work" >>) >>],
       [id |-> "B1", subjects |-> << >>],
       [id |-> "B2", subjects |-> << >>],
       [id |-> "C1", subjects |-> << >>] >>

\* the steps of one subject, each with the ids of its level and subject
StepsOf(level, subject) ==
    [ k \in 1..Len(subject.steps) |->
        [level |-> level.id, subject |-> subject.id, step |-> subject.steps[k]] ]

RECURSIVE SubjectsFrom(_, _)
SubjectsFrom(level, j) ==
    IF j > Len(level.subjects) THEN << >>
    ELSE StepsOf(level, level.subjects[j]) \o SubjectsFrom(level, j + 1)

RECURSIVE LevelsFrom(_)
LevelsFrom(i) ==
    IF i > Len(CURRICULUM) THEN << >>
    ELSE SubjectsFrom(CURRICULUM[i], 1) \o LevelsFrom(i + 1)

\* the flattened curriculum; the step of globalIndex g is allSteps[g + 1]
allSteps == LevelsFrom(1)

\* `${subjectId}-${stepId}`
CompositeId(subjectId, stepId) == subjectId \o stepId

\* Array.prototype.includes
Includes(list, x) == \E i \in 1..Len(list) : list[i] = x

isCompleted(user, subjectId, stepId) ==
    Includes(user.completedSteps, CompositeId(subjectId, stepId))

isUnlocked_noLock(user, index) == TRUE

\* index is the globalIndex, from 0; its predecessor is allSteps[index]
isUnlocked(user, index) ==
    IF index = 0 THEN TRUE
    ELSE LET prevStepObj == allSteps[index]
         IN  isCompleted(user, prevStepObj.subject, prevStepObj.step.id)

\* the profile that Onboarding hands over
NewProfile == [completedSteps |-> << >>, completedSubjects |-> << >>]

\* if (!list.includes(x)) list.push(x)
WithNew_noCheck(list, x) == Append(list, x)

WithNew(list, x) == IF Includes(list, x) THEN list ELSE Append(list, x)

IsLastStep_any(step) == step.order >= 1

IsLastStep(step) == step.order = LastOrder

\* the profile that handleSessionComplete sets
ProfileAfterComplete(user, session) ==
    [completedSteps |->
        WithNew(user.completedSteps,
                CompositeId(session.subject, session.step.id)),
     completedSubjects |->
        IF IsLastStep(session.step)
        THEN WithNew(user.completedSubjects, session.subject)
        ELSE user.completedSubjects]

----------------------------------------------------------------------------
(* The session effect: state after startSession has run, and the callbacks *)
(* of the connection.                                                      *)

InitialMicOn == TRUE    \* useState(true)

InitWith(out, inp) ==
    /\ connectionState = "CONNECTING"
    /\ isThinking = FALSE
    /\ messages = << >>
    /\ needsInteraction = (out = "suspended")
    /\ turnCount = 0
    /\ cleanup = FALSE
    /\ transport = "connecting"
    /\ openPc = "idle"
    /\ outState = out
    /\ inState = inp
    /\ micStream = "none"
    /\ settleTimer = FALSE
    /\ wakes = 0
    /\ nextStartTime = 0
    /\ sources = {}
    /\ pending = << >>
    /\ clock = 0
    /\ wallClock = 0
    /\ completed = FALSE
    /\ nsegs = 0
    /\ lastSched = [start |-> 0, dur |-> 0, at |-> 0, after |-> NoSegment,
                    seq |-> 0, stale |-> FALSE, over |-> {}, top |-> {}]
    /\ chainEnd = NoSegment
    /\ stoppedSegs = {}
    /\ flushedSegs = {}
    /\ endedSegs = {}
    /\ rawText = << >>
    /\ tcReceived = 0
    /\ turn = [roles |-> {}, text |-> NoText, base |-> 0, done |-> FALSE]
    /\ flushes = [parity |-> 0, found |-> 0]
    /\ isMicOn = InitialMicOn
    /\ isMicOnRef = InitialMicOn
    /\ processor = "none"     \* the mount effect of line 295 found no processor
    /\ sessionResolved = FALSE
    /\ thenQueue = << >>
    /\ sent = << >>
    /\ frames = 0
    /\ mutedFrames = {}
    /\ earlyFrames = {}
    /\ watchdog = Disarmed
    /\ fires = 0
    /\ sinceActivity = {}
    /\ userProfile = NewProfile
    /\ activeSession = { allSteps[1] }   \* the first step, the one unlocked

\* onopen after the output context has been dealt with (lines 130-134)
AfterOutputResume ==
    IF inState = "suspended"
    THEN /\ openPc' = "resumeIn"
         /\ UNCHANGED connectionState
    ELSE /\ openPc' = "getMic"
         /\ connectionState' = "CONNECTED"

\* the connection opens and onopen runs to its first await
OnOpen ==
    /\ transport = "connecting"
    /\ openPc = "idle"
    /\ transport' = "open"
    /\ IF cleanup
       THEN /\ openPc' = "done"
            /\ UNCHANGED connectionState
       ELSE IF outState = "suspended"
            THEN /\ openPc' = "resumeOut"
                 /\ UNCHANGED connectionState
            ELSE AfterOutputResume
    /\ UNCHANGED << isThinking, textVars, needsInteraction, turnCount, cleanup,
                    ctxVars, micStream, settleTimer, wakes, playVars, pending,
                    clock, wallClock, appVars, completed, tcReceived, micVars,
                    sendVars, watchVars >>

\* the callbacks of the queue that send: they run oldest first
Delivered_newestFirst(q) ==
    LET r == SelectSeq(q, LAMBDA c : c /= Close)
    IN  [i \in 1..Len(r) |-> r[Len(r) + 1 - i]]

Delivered(q) == SelectSeq(q, LAMBDA c : c /= Close)

\* the promise of ai.live.connect resolves with the session, once the
\* connection has opened: the callbacks waiting on it run in the order in
\* which they were attached
SessionResolved ==
    /\ ~sessionResolved
    /\ openPc /= "idle"
    /\ sessionResolved' = TRUE
    /\ thenQueue' = << >>
    /\ sent' = sent \o Delivered(thenQueue)
    /\ wakes' = wakes + Count(thenQueue, Wake)
    /\ isThinking' = IF Count(thenQueue, Wake) > 0 THEN TRUE ELSE isThinking
    /\ watchdog' = WatchdogAfter(watchdog, isThinking, isThinking', cleanup)
    /\ transport' = IF Count(thenQueue, Close) > 0 /\ transport = "open"
                    THEN "closed" ELSE transport
    /\ UNCHANGED << connectionState, textVars, needsInteraction, turnCount,
                    cleanup, openPc, ctxVars, micStream, settleTimer, playVars,
                    pending, clock, wallClock, appVars, completed, tcReceived, micVars,
                    frames, mutedFrames, earlyFrames, fires, sinceActivity >>

\* `await outputContextRef.current.resume()` settles
ResumeOutSettled(ok) ==
    /\ openPc = "resumeOut"
    /\ ok => outState /= "closed"      \* resume() rejects on a closed context
    /\ outState' = IF ok THEN "running" ELSE outState
    /\ needsInteraction' = IF ok THEN needsInteraction ELSE TRUE
    /\ AfterOutputResume
    /\ UNCHANGED << isThinking, textVars, turnCount, cleanup, transport, inState,
                    micStream, settleTimer, wakes, playVars, pending, clock,
                    wallClock, appVars, completed, tcReceived, micVars, sendVars,
                    watchVars >>

\* `await inputContextRef.current.resume()` settles
ResumeInSettled(ok) ==
    /\ openPc = "resumeIn"
    /\ ok => inState /= "closed"
    /\ inState' = IF ok THEN "running" ELSE inState
    /\ needsInteraction' = IF ok THEN needsInteraction ELSE TRUE
    /\ connectionState' = "CONNECTED"
    /\ openPc' = "getMic"
    /\ UNCHANGED << isThinking, textVars, turnCount, cleanup, transport, outState,
                    micStream, settleTimer, wakes, playVars, pending, clock,
                    wallClock, appVars, completed, tcReceived, micVars, sendVars,
                    watchVars >>

\* lines 139-167: the stream is kept, the capture chain is built with the
\* callback of line 149 and the settle timer is started
CaptureChainBuilt_noSettleTimer ==
    /\ micStream' = "live"
    /\ processor' = "closure"
    /\ settleTimer' = FALSE
    /\ UNCHANGED connectionState

CaptureChainBuilt ==
    /\ micStream' = "live"
    /\ processor' = "closure"
    /\ settleTimer' = TRUE
    /\ UNCHANGED connectionState

\* lines 139-143 and 169-172: the stream is kept, building the chain throws
CaptureChainThrows ==
    /\ micStream' = "live"
    /\ connectionState' = "ERROR"
    /\ UNCHANGED << processor, settleTimer >>

\* `await getUserMedia` settles: the capture chain and the settle timer are
\* set up, or the catch of line 169 runs.  The handler does not look at
\* `cleanup` again; on a context the teardown has closed,
\* createMediaStreamSource either throws or returns a node that stays silent.
MicSettled(granted) ==
    /\ openPc = "getMic"
    /\ openPc' = "done"
    /\ IF granted
       THEN IF inState = "closed"
            THEN CaptureChainBuilt \/ CaptureChainThrows
            ELSE CaptureChainBuilt
       ELSE /\ connectionState' = "ERROR"
            /\ micStream' = "denied"
            /\ UNCHANGED << settleTimer, processor >>
    /\ UNCHANGED << isThinking, textVars, needsInteraction, turnCount, cleanup,
                    transport, ctxVars, wakes, playVars, pending, clock,
                    wallClock, appVars, completed, tcReceived, isMicOn, isMicOnRef,
                    sendVars, watchVars >>

\* the 500 ms timer of onopen fires: triggerModel
SettleFire ==
    /\ settleTimer
    /\ settleTimer' = FALSE
    /\ TriggerModel(watchdog)
    /\ UNCHANGED << connectionState, textVars, needsInteraction, turnCount,
                    cleanup, transport, openPc, ctxVars, micStream, playVars,
                    pending, clock, wallClock, appVars, completed, tcReceived, micVars,
                    sessionResolved, frames, mutedFrames, earlyFrames, fires,
                    sinceActivity >>

\* the watchdog timer expires (lines 74-81): triggerModel; the effect runs
\* again only if isThinking changes
WatchdogFire ==
    /\ watchdog.armed
    /\ watchdog.elapsed = WatchdogDelay
    /\ wakes + Count(thenQueue, Wake) < MaxWakes
    /\ fires' = fires + 1
    /\ TriggerModel(Disarmed)
    /\ UNCHANGED << connectionState, textVars, needsInteraction, turnCount,
                    cleanup, transport, openPc, ctxVars, micStream, settleTimer,
                    playVars, pending, clock, wallClock, appVars, completed, tcReceived,
                    micVars, sessionResolved, frames, mutedFrames, earlyFrames,
                    sinceActivity >>

Min(a, b) == IF a <= b THEN a ELSE b

\* a second of wall time passes; a timer that is due fires first
TimePasses ==
    /\ ~(watchdog.armed /\ watchdog.elapsed = WatchdogDelay)
    /\ watchdog.armed \/ \E t \in sinceActivity : t < WatchdogDelay
    /\ watchdog' = IF watchdog.armed
                   THEN [watchdog EXCEPT !.elapsed = @ + 1] ELSE watchdog
    /\ sinceActivity' = { Min(t + 1, WatchdogDelay) : t \in sinceActivity }
    /\ UNCHANGED << connectionState, isThinking, textVars, needsInteraction,
                    turnCount, cleanup, transport, openPc, ctxVars, micStream,
                    settleTimer, wakes, playVars, pending, clock, wallClock, appVars,
                    completed, tcReceived, micVars, sendVars, fires >>

OnClose ==
    /\ transport \in { "open", "errored" }
    /\ transport' = "closed"
    /\ IF cleanup
       THEN UNCHANGED << connectionState, isThinking, watchdog >>
       ELSE /\ connectionState' = "DISCONNECTED"
            /\ isThinking' = FALSE
            /\ watchdog' = WatchdogAfter(watchdog, isThinking, FALSE, cleanup)
    /\ UNCHANGED << textVars, needsInteraction, turnCount, cleanup, openPc,
                    ctxVars, micStream, settleTimer, wakes, playVars, pending,
                    clock, wallClock, appVars, completed, tcReceived, micVars, sendVars,
                    fires, sinceActivity >>

OnError ==
    /\ transport \in { "connecting", "open" }
    /\ transport' = "errored"
    /\ connectionState' = "ERROR"
    /\ isThinking' = FALSE
    /\ watchdog' = WatchdogAfter(watchdog, isThinking, FALSE, cleanup)
    /\ UNCHANGED << textVars, needsInteraction, turnCount, cleanup, openPc,
                    ctxVars, micStream, settleTimer, wakes, playVars, pending,
                    clock, wallClock, appVars, completed, tcReceived, micVars, sendVars,
                    fires, sinceActivity >>

\* the cleanup of the session effect, and with it that of the watchdog effect
Cleanup ==
    /\ ~cleanup
    /\ cleanup' = TRUE
    /\ IF sessionResolved
       THEN /\ transport' = IF transport = "open" THEN "closed" ELSE transport
            /\ UNCHANGED thenQueue
       ELSE /\ thenQueue' = Append(thenQueue, Close)
            /\ UNCHANGED transport
    /\ micStream' = IF micStream = "live" THEN "stopped" ELSE micStream
    /\ inState' = "closed"
    /\ outState' = "closed"
    /\ stoppedSegs' = stoppedSegs \cup Ids(sources)
    /\ watchdog' = Disarmed
    /\ UNCHANGED << connectionState, isThinking, textVars, needsInteraction,
                    turnCount, openPc, settleTimer, wakes, nextStartTime,
                    sources, nsegs, lastSched, chainEnd, flushes, pending,
                    flushedSegs, endedSegs,
                    clock, wallClock, tcReceived, micVars,
                    sessionResolved, sent, frames, mutedFrames, earlyFrames, fires,
                    sinceActivity >>

\* the component is unmounted while its session stays the active one
Unmount == Cleanup /\ UNCHANGED << completed, appVars >>

----------------------------------------------------------------------------
(* The capture pipeline.                                                   *)

\* the test at the head of the installed callback: the callback of line 149
\* reads the isMicOn of the render that started the session, the callback
\* of line 297 reads the ref
MicGate ==
    IF processor = "ref" THEN isMicOnRef ELSE InitialMicOn

\* the processor delivers a frame to onaudioprocess
CaptureFrame ==
    /\ processor /= "none"
    /\ inState = "running"
    /\ frames < MaxFrames
    /\ frames' = frames + 1
    /\ mutedFrames' = IF isMicOn THEN mutedFrames
                                 ELSE mutedFrames \cup { frames + 1 }
    /\ earlyFrames' = IF sessionResolved THEN earlyFrames
                                         ELSE earlyFrames \cup { frames + 1 }
    /\ IF ~MicGate
       THEN UNCHANGED << sent, thenQueue >>
       ELSE IF sessionResolved
            THEN /\ sent' = Append(sent, frames + 1)
                 /\ UNCHANGED thenQueue
            ELSE /\ thenQueue' = Append(thenQueue, frames + 1)
                 /\ UNCHANGED sent
    /\ UNCHANGED << connectionState, isThinking, textVars, needsInteraction,
                    turnCount, cleanup, transport, openPc, ctxVars, micStream,
                    settleTimer, wakes, playVars, pending, clock, wallClock, appVars,
                    completed, tcReceived, micVars, sessionResolved,
                    watchVars >>

\* the microphone button (lines 446-450), and the effect of line 294
ToggleMic ==
    /\ ~cleanup
    /\ outState' = IF outState = "suspended" THEN "running" ELSE outState
    /\ inState' = IF inState = "suspended" THEN "running" ELSE inState
    /\ isMicOn' = ~isMicOn
    /\ isMicOnRef' = ~isMicOn
    /\ UNCHANGED << connectionState, isThinking, textVars, needsInteraction,
                    turnCount, cleanup, transport, openPc, micStream,
                    settleTimer, wakes, playVars, pending, clock, wallClock, appVars,
                    completed, tcReceived, processor, sendVars, watchVars >>

\* handleStartInteraction reaches line 318: no resume() it awaited rejected
GestureCompletes_always(out, inp, okOut, okIn) == TRUE

GestureCompletes(out, inp, okOut, okIn) ==
    /\ out = "suspended" => okOut
    /\ inp = "suspended" => okIn

\* the Tap to Start button (lines 315-320), shown while needsInteraction:
\* a resume() that rejects ends the handler, there is no try around it
StartInteraction(okOut, okIn) ==
    /\ needsInteraction
    /\ ~cleanup
    /\ outState' = IF outState = "suspended" /\ okOut THEN "running"
                                                       ELSE outState
    /\ inState' = IF /\ inState = "suspended"
                     /\ outState = "suspended" => okOut
                     /\ okIn
                  THEN "running" ELSE inState
    /\ IF GestureCompletes(outState, inState, okOut, okIn)
       THEN /\ needsInteraction' = FALSE
            /\ TriggerModel(watchdog)
       ELSE UNCHANGED << needsInteraction, isThinking, watchdog, wakes, sent,
                         thenQueue >>
    /\ UNCHANGED << connectionState, textVars, turnCount, cleanup, transport,
                    openPc, micStream, settleTimer, playVars, pending, clock,
                    wallClock, appVars, completed, tcReceived, micVars, sessionResolved,
                    frames, mutedFrames, earlyFrames, fires, sinceActivity >>

----------------------------------------------------------------------------
(* The output clock and the end of a segment.                              *)

Tick ==
    /\ outState = "running"
    /\ clock < MaxClock
    /\ clock' = clock + 1
    /\ UNCHANGED << connectionState, isThinking, textVars, needsInteraction,
                    turnCount, cleanup, transport, openPc, ctxVars, micStream,
                    settleTimer, wakes, playVars, pending, wallClock, appVars, completed,
                    tcReceived, micVars, sendVars, watchVars >>

\* sourcesRef.current.delete(source), for the source of segment id
AfterEnded_clearsAll(srcs, id) == {}

AfterEnded(srcs, id) == { s \in srcs : s.id /= id }

\* source.onended of a segment that played to its end
SegmentEnded(id) ==
    /\ \E s \in sources :
        /\ s.id = id
        /\ clock >= s.end
    /\ id \notin endedSegs
    /\ sources' = AfterEnded(sources, id)
    /\ endedSegs' = endedSegs \cup { id }
    /\ UNCHANGED << connectionState, isThinking, textVars, needsInteraction,
                    turnCount, cleanup, transport, openPc, ctxVars, micStream,
                    settleTimer, wakes, nextStartTime, nsegs, lastSched,
                    chainEnd, stoppedSegs, flushedSegs, flushes, pending,
                    clock, wallClock, appVars, completed, tcReceived, micVars,
                    sendVars, watchVars >>

\* source.onended of a segment that was stopped before its end, by an
\* interrupted branch or by the teardown
LateEnded(id) ==
    /\ id \in stoppedSegs \ endedSegs
    /\ sources' = AfterEnded(sources, id)
    /\ endedSegs' = endedSegs \cup { id }
    /\ UNCHANGED << connectionState, isThinking, textVars, needsInteraction,
                    turnCount, cleanup, transport, openPc, ctxVars, micStream,
                    settleTimer, wakes, nextStartTime, nsegs, lastSched,
                    chainEnd, stoppedSegs, flushedSegs, flushes, pending,
                    clock, wallClock, appVars, completed, tcReceived, micVars,
                    sendVars, watchVars >>

----------------------------------------------------------------------------
(* The completion gate.                                                    *)

canComplete_offByOne == turnCount >= CompleteThreshold - 1

canComplete == turnCount >= CompleteThreshold

\* the Complete Lesson button: onClick = canComplete ? onComplete : undefined;
\* onComplete is handleSessionComplete of App, which records the step and
\* clears the active session, and with that LiveSession is unmounted
ClickComplete ==
    /\ canComplete
    /\ activeSession /= {}
    /\ completed' = TRUE
    /\ \E session \in activeSession :
        userProfile' = ProfileAfterComplete(userProfile, session)
    /\ activeSession' = {}
    /\ Cleanup

\* the Exit button: onClick = onDisconnect, which is handleExitLesson of App
ExitLesson_completes ==
    /\ activeSession /= {}
    /\ \E session \in activeSession :
        userProfile' = ProfileAfterComplete(userProfile, session)
    /\ activeSession' = {}
    /\ UNCHANGED completed
    /\ Cleanup

ExitLesson ==
    /\ activeSession /= {}
    /\ activeSession' = {}
    /\ UNCHANGED << userProfile, completed >>
    /\ Cleanup

\* a new LiveSession is mounted: the state of InitWith, with contexts that
\* a click has just created; what the handlers of the session before it
\* still had to do is left out
Mount(out, inp) ==
    /\ connectionState' = "CONNECTING"
    /\ isThinking' = FALSE
    /\ messages' = << >>
    /\ needsInteraction' = (out = "suspended")
    /\ turnCount' = 0
    /\ cleanup' = FALSE
    /\ transport' = "connecting"
    /\ openPc' = "idle"
    /\ outState' = out
    /\ inState' = inp
    /\ micStream' = "none"
    /\ settleTimer' = FALSE
    /\ wakes' = 0
    /\ nextStartTime' = 0
    /\ sources' = {}
    /\ pending' = << >>
    /\ clock' = 0
    /\ nsegs' = 0
    /\ lastSched' = [start |-> 0, dur |-> 0, at |-> 0, after |-> NoSegment,
                    seq |-> 0, stale |-> FALSE, over |-> {}, top |-> {}]
    /\ chainEnd' = NoSegment
    /\ stoppedSegs' = {}
    /\ flushedSegs' = {}
    /\ endedSegs' = {}
    /\ rawText' = << >>
    /\ tcReceived' = 0
    /\ turn' = [roles |-> {}, text |-> NoText, base |-> 0, done |-> FALSE]
    /\ flushes' = [parity |-> 0, found |-> 0]
    /\ isMicOn' = InitialMicOn
    /\ isMicOnRef' = InitialMicOn
    /\ processor' = "none"     \* the mount effect of line 295 found no processor
    /\ sessionResolved' = FALSE
    /\ thenQueue' = << >>
    /\ sent' = << >>
    /\ frames' = 0
    /\ mutedFrames' = {}
    /\ earlyFrames' = {}
    /\ watchdog' = Disarmed
    /\ fires' = 0
    /\ sinceActivity' = {}
    /\ completed' = FALSE

\* a step button of the lesson map, shown while no session is active:
\* onClick = unlocked ? onStepSelect(level, subject, step) : null
StepSelect(index) ==
    /\ activeSession = {}
    /\ index \in 0..(Len(allSteps) - 1)
    /\ isUnlocked(userProfile, index)
    /\ activeSession' = { allSteps[index + 1] }
    /\ Mount("running", "running")
    /\ UNCHANGED << userProfile, wallClock >>

----------------------------------------------------------------------------
(* Inbound messages and the specifications.  Every specification starts    *)
(* from the session as constructed and runs the handlers above; they       *)
(* differ in the messages the remote endpoint sends and in which events of *)
(* the environment occur.  The remote endpoint sends content in answer to  *)
(* input only, and input reaches it through the resolved session.          *)

Message(a, i, it, ot, tc) ==
    [audio |-> a, interrupted |-> i, inputTrans |-> it, outputTrans |-> ot,
     turnComplete |-> tc]

\* at most k handlers are suspended at the decode at any time
Fits(m, k) == m.audio /= NoAudio => Len(pending) < k

Durations == { 1, 2 }

\* turns: audio (also malformed), interruptions and turn-complete signals
TurnMessages ==
    { Message(a, i, NoText, NoText, tc) :
        a \in { NoAudio, 1, BadAudio }, i \in BOOLEAN, tc \in BOOLEAN }

Init == InitWith("running", "running")

Next ==
    \/ OnOpen
    \/ SessionResolved
    \/ sessionResolved /\ \E m \in TurnMessages : Fits(m, MaxPending) /\ OnMessage(m)
    \/ \E i \in 1..MaxPending : DecodeSettled(i)
    \/ ClickComplete
    \/ Unmount

Spec == Init /\ [][Next]_vars

\* transcripts of both roles, cut into fragments, and turn-complete signals
TextMessages ==
    { Message(NoAudio, FALSE, it, ot, tc) :
        it \in { NoText, << "a" >>, << "a", "b" >> },
        ot \in { NoText, << "c" >> },
        tc \in BOOLEAN }

NextText ==
    \/ OnOpen
    \/ SessionResolved
    \/ sessionResolved /\ \E m \in TextMessages : Fits(m, MaxPending) /\ OnMessage(m)

SpecText == Init /\ [][NextText]_vars

\* model output that carries reasoning text, cut at every place
CleanFragments ==
    { << "#" >>, << "t" >>, << "x" >>, << "<" >>, << ">" >>, << " " >>,
      << "#", "t" >>, << "<", ">" >>, << "#", "t", "x" >>, << "<", ">", "x" >> }

CleanMessages ==
    { Message(NoAudio, FALSE, NoText, ot, FALSE) : ot \in CleanFragments }

NextClean ==
    \/ OnOpen
    \/ SessionResolved
    \/ sessionResolved /\ \E m \in CleanMessages : Fits(m, MaxPending) /\ OnMessage(m)

SpecClean == Init /\ [][NextClean]_vars

\* audio segments of every duration, malformed payloads and interruptions
PlayMessages ==
    { Message(a, i, NoText, NoText, FALSE) :
        a \in Durations \cup { NoAudio }, i \in BOOLEAN }
    \cup { Message(BadAudio, FALSE, NoText, NoText, FALSE) }

NextPlay ==
    \/ OnOpen
    \/ SessionResolved
    \/ sessionResolved /\ \E m \in PlayMessages : Fits(m, MaxPending) /\ OnMessage(m)
    \/ \E i \in 1..MaxPending : DecodeSettled(i)
    \/ Tick
    \/ \E id \in 1..MaxSegs : SegmentEnded(id)
    \/ Unmount

SpecPlay == Init /\ [][NextPlay]_vars

\* audio segments only, with several decodes in flight
OrderMessages ==
    { Message(a, FALSE, NoText, NoText, FALSE) : a \in Durations }

NextOrder ==
    \/ OnOpen
    \/ SessionResolved
    \/ sessionResolved /\ \E m \in OrderMessages : Fits(m, MaxInFlight) /\ OnMessage(m)
    \/ \E i \in 1..MaxInFlight : DecodeSettled(i)
    \/ Tick

SpecOrder == Init /\ [][NextOrder]_vars

\* the active set: segments that end, interruptions, end notifications of
\* stopped segments and the teardown
SetMessages ==
    { Message(a, i, NoText, NoText, FALSE) :
        a \in { NoAudio, 1 }, i \in BOOLEAN }

NextSet ==
    \/ OnOpen
    \/ SessionResolved
    \/ sessionResolved /\ \E m \in SetMessages : Fits(m, MaxPending) /\ OnMessage(m)
    \/ \E i \in 1..MaxPending : DecodeSettled(i)
    \/ Tick
    \/ \E id \in 1..MaxSegs : SegmentEnded(id)
    \/ \E id \in 1..MaxSegs : LateEnded(id)
    \/ Unmount

SpecSet == Init /\ [][NextSet]_vars

\* barge-in: interruptions that come with or without audio and with or
\* without a fragment of what the user says, around audio being decoded
BargeMessages ==
    { Message(a, i, it, NoText, FALSE) :
        a \in { NoAudio, 1 }, i \in BOOLEAN, it \in { NoText, << "a", "b" >> } }

NextBarge ==
    \/ OnOpen
    \/ SessionResolved
    \/ sessionResolved /\ \E m \in BargeMessages : Fits(m, MaxPending) /\ OnMessage(m)
    \/ \E i \in 1..MaxPending : DecodeSettled(i)

SpecBarge == Init /\ [][NextBarge]_vars

\* the wall clock advances by a millisecond
WallTick ==
    /\ wallClock < MaxWall
    /\ wallClock' = wallClock + 1
    /\ UNCHANGED << connectionState, isThinking, textVars, needsInteraction,
                    turnCount, cleanup, transport, openPc, ctxVars, micStream,
                    settleTimer, wakes, playVars, pending, clock, completed,
                    tcReceived, micVars, sendVars, watchVars, appVars >>

\* transcripts of both roles while the wall clock runs
IdMessages ==
    { Message(NoAudio, FALSE, it, ot, tc) :
        it \in { NoText, << "a" >> }, ot \in { NoText, << "c" >> },
        tc \in BOOLEAN }

NextIds ==
    \/ OnOpen
    \/ SessionResolved
    \/ sessionResolved /\ \E m \in IdMessages : Fits(m, MaxPending) /\ OnMessage(m)
    \/ WallTick

SpecIds == Init /\ [][NextIds]_vars

\* the application: sessions are selected on the lesson map, run through
\* their turns and are completed or left
AppMessages == { Message(NoAudio, FALSE, NoText, NoText, TRUE) }

NextApp ==
    \/ OnOpen
    \/ SessionResolved
    \/ sessionResolved /\ \E m \in AppMessages : Fits(m, MaxPending) /\ OnMessage(m)
    \/ ClickComplete
    \/ ExitLesson
    \/ \E index \in 0..(Len(allSteps) - 1) : StepSelect(index)

SpecApp == Init /\ [][NextApp]_vars

\* the connection: audio contexts that may start suspended, and the open,
\* close and error callbacks in every order the transport allows
InitConn ==
    \E out \in { "suspended", "running" }, inp \in { "suspended", "running" } :
        InitWith(out, inp)

NextConn ==
    \/ OnOpen
    \/ SessionResolved
    \/ \E ok \in BOOLEAN : ResumeOutSettled(ok)
    \/ \E ok \in BOOLEAN : ResumeInSettled(ok)
    \/ \E granted \in BOOLEAN : MicSettled(granted)
    \/ SettleFire
    \/ OnClose
    \/ OnError
    \/ Unmount

SpecConn == InitConn /\ [][NextConn]_vars

\* the same with the Tap to Start button
NextGesture ==
    \/ NextConn
    \/ \E okOut \in BOOLEAN, okIn \in BOOLEAN : StartInteraction(okOut, okIn)

SpecGesture == InitConn /\ [][NextGesture]_vars

\* the same as SpecConn, with timers that fire and a promise that resolves
SpecLive ==
    /\ InitConn
    /\ [][NextConn]_vars
    /\ WF_vars(SettleFire)
    /\ WF_vars(SessionResolved)

\* the capture pipeline: the microphone, the toggle, the settle timer and
\* the teardown, around a connection that opens, fails or closes
NextMic ==
    \/ NextConn
    \/ CaptureFrame
    \/ ToggleMic

SpecMic == InitConn /\ [][NextMic]_vars

\* the watchdog: wake stimuli, wall time, and inbound audio, transcript
\* fragments and turn-complete signals
WatchMessages ==
    { Message(1, FALSE, NoText, NoText, FALSE),
      Message(NoAudio, FALSE, << "a", "b" >>, NoText, FALSE),
      Message(NoAudio, FALSE, NoText, << "c", "d" >>, FALSE),
      Message(NoAudio, FALSE, NoText, NoText, TRUE),
      Message(NoAudio, FALSE, << "a", "b" >>, NoText, TRUE) }

NextWatch ==
    \/ OnOpen
    \/ SessionResolved
    \/ \E granted \in BOOLEAN : MicSettled(granted)
    \/ SettleFire
    \/ TimePasses
    \/ WatchdogFire
    \/ sessionResolved /\ \E m \in WatchMessages : Fits(m, MaxPending) /\ OnMessage(m)
    \/ \E i \in 1..MaxPending : DecodeSettled(i)
    \/ Unmount

SpecWatch == Init /\ [][NextWatch]_vars

----------------------------------------------------------------------------
(* The completion gate and the turn counter.                               *)

\* C1: onComplete is called only in a state where turnCount >= 3; with a
\* smaller count the Complete button does nothing.
C1_CompletionGated == completed => turnCount >= CompleteThreshold

\* three turn-complete signals have been counted and the click went through
C1_Witness == completed /\ turnCount = CompleteThreshold /\ tcReceived = CompleteThreshold

\* C2: turnCount is the number of turnComplete messages received by the live
\* session: every such message whose handler has ended was counted once,
\* whatever else it carried, and nothing else changes the counter.
C2_CountsEveryTurnComplete == turnCount = tcReceived

----------------------------------------------------------------------------
(* The transcript.                                                         *)

Last(q) == q[Len(q)]

\* C3: the handling of a turn-complete signal leaves the trailing message
\* of the transcript, if there is one, non-partial.
C3_TurnCompleteFinalizes ==
    [][ (tcReceived' /= tcReceived /\ Len(messages') > 0)
            => ~Last(messages').isPartial ]_vars

\* C4: when a turn has ended in which fragments of one role only arrived,
\* the transcript has grown by exactly one message, of that role, whose text
\* is the fragments in arrival order, and that message is finalized.
C4_OneMessagePerTurn ==
    \A r \in { "user", "model" } :
        (turn.done /\ turn.roles = { r })
            => /\ Len(messages) = turn.base + 1
               /\ Last(messages).role = r
               /\ Last(messages).text = turn.text
               /\ ~Last(messages).isPartial

Contains(s, d) == IndexOf(s, d) /= 0

TextAfterDelimiter(raw) ==
    SubSeq(raw, IndexOf(raw, CtrlDelim) + Len(CtrlDelim), Len(raw))

\* C5: a model message whose received text begins with the reasoning marker
\* and contains the delimiter shows exactly the text after the delimiter
\* (as received, or with the surrounding blanks removed).
C5_OnlyTextAfterDelimiter ==
    \A i \in 1..Len(messages) :
        (/\ messages[i].role = "model"
         /\ StartsWith(rawText[i], ThoughtPrefix)
         /\ Contains(rawText[i], CtrlDelim))
            => messages[i].text \in { TextAfterDelimiter(rawText[i]),
                                      Trim(TextAfterDelimiter(rawText[i])) }

\* C6: a model message whose received text begins with the reasoning marker
\* and holds no delimiter yet shows the empty text.
C6_ReasoningHidden ==
    \A i \in 1..Len(messages) :
        (/\ messages[i].role = "model"
         /\ StartsWith(rawText[i], ThoughtPrefix)
         /\ ~Contains(rawText[i], CtrlDelim))
            => messages[i].text = NoText

----------------------------------------------------------------------------
(* Playback.                                                               *)

Max(a, b) == IF a >= b THEN a ELSE b

\* C7 as stated: a segment scheduled after another one, with no flush in
\* between, starts where that one ends.
C7_StartsWherePreviousEnds ==
    \A prevEnd \in lastSched.after : lastSched.start = prevEnd

\* C7 amended: it starts where the previous one ends, or at the output clock
\* read when it is scheduled if the clock has already passed that point.
C7_StartsAtEndOrClock ==
    \A prevEnd \in lastSched.after :
        lastSched.start = Max(prevEnd, lastSched.at)

\* a third segment scheduled back to back, before the clock reached its start
C7_Witness ==
    /\ nsegs >= 3
    /\ \E prevEnd \in lastSched.after :
        /\ lastSched.at < prevEnd
        /\ lastSched.start = prevEnd

C9_NoOverlap ==
    nsegs > 0
        => /\ lastSched.start >= lastSched.at
           /\ \A prevEnd \in lastSched.after : lastSched.start >= prevEnd

\* the scheduler had fallen behind: the clock had passed the previous end
C9_Witness ==
    /\ nsegs >= 2
    /\ \E prevEnd \in lastSched.after :
        /\ lastSched.at > prevEnd
        /\ lastSched.start = lastSched.at

----------------------------------------------------------------------------
(* The connection state.                                                   *)

\* C10: once the state is DISCONNECTED or ERROR it never becomes CONNECTED.
C10_TerminalStaysTerminal ==
    [][ (connectionState \in { "DISCONNECTED", "ERROR" })
            => connectionState' /= "CONNECTED" ]_vars

----------------------------------------------------------------------------
(* Arrival order on the output timeline.                                   *)

\* C18: a segment is not given a later start than a segment, scheduled
\* before it, whose message arrived after its own.
C18_ArrivalOrder ==
    \A h \in lastSched.over :
        lastSched.seq < h.seq => lastSched.start <= h.start

----------------------------------------------------------------------------
(* The capture pipeline and the outbound transport.                        *)

FramesOf(q) == SelectSeq(q, LAMBDA c : c > 0)

\* what has been sent, or handed to the session promise to be sent
Outbound == sent \o Delivered(thenQueue)

\* C11: no frame captured while the microphone was toggled off is sent, or
\* handed over to be sent.
C11_MutedFramesDiscarded ==
    \A i \in 1..Len(Outbound) : Outbound[i] \notin mutedFrames

\* C19: the frames are sent, and wait to be sent, in the order of their
\* capture, none twice, and once the session has resolved every frame
\* captured with the microphone on has been sent.
C19_CaptureOrder ==
    /\ \A i, j \in 1..Len(FramesOf(Outbound)) :
            i < j => FramesOf(Outbound)[i] < FramesOf(Outbound)[j]
    /\ sessionResolved =>
            \A f \in (1..frames) \ mutedFrames :
                \E i \in 1..Len(sent) : sent[i] = f

\* frames captured before the session promise resolved, a wake stimulus
\* between them, all sent at the resolution, and a frame sent after it
C19_Witness ==
    /\ sessionResolved
    /\ mutedFrames = {}
    /\ earlyFrames = { 1, 2 }
    /\ sent = << 1, Wake, 2, 3 >>

----------------------------------------------------------------------------
(* The watchdog.                                                           *)

\* C12: the expiry of the watchdog timer leaves a fresh timer running.
C12_WatchdogRestarts ==
    [][ fires' /= fires => watchdog' = Armed ]_vars

\* C13: the handling of a turn-complete signal that arrives while the timer
\* started after a wake stimulus is pending leaves no timer pending.
C13_TurnCompleteCancels ==
    [][ (tcReceived' /= tcReceived /\ wakes > 0 /\ watchdog.armed)
            => ~watchdog'.armed ]_vars

\* C14: the watchdog timer does not expire less than 4 seconds after the
\* last inbound audio or transcript fragment.
C14_ActivityResetsWatchdog ==
    [][ fires' /= fires
            => \A t \in sinceActivity : t >= WatchdogDelay ]_vars

----------------------------------------------------------------------------
(* Teardown and errors.                                                    *)

\* C15: once the teardown has run, no wake stimulus and no frame is sent or
\* handed over to be sent, and the watchdog timer does not expire.
C15_NothingSentAfterTeardown ==
    [][ cleanup => (Outbound' = Outbound /\ wakes' = wakes /\ fires' = fires) ]_vars

\* C16: when the teardown has run and the open handler, the decodes and the
\* session promise have finished, the connection is closed, the microphone
\* is not live, both contexts are closed and every segment has been stopped.
C16_TeardownReleasesAll ==
    (cleanup /\ openPc = "done" /\ pending = << >> /\ sessionResolved)
        => /\ transport \in { "closed", "errored" }
           /\ micStream /= "live"
           /\ inState = "closed"
           /\ outState = "closed"
           /\ Ids(sources) \subseteq stoppedSegs

\* C17: in the ERROR state the microphone is not live and both contexts are
\* closed, and no frame is sent or handed over to be sent.
C17_ErrorReleasesAudio ==
    /\ [](connectionState = "ERROR"
            => (micStream /= "live" /\ inState = "closed" /\ outState = "closed"))
    /\ [][ connectionState = "ERROR"
            => FramesOf(Outbound') = FramesOf(Outbound) ]_vars

----------------------------------------------------------------------------
(* Finalized messages.                                                     *)

\* C20: a step changes no message that is finalized, removes no message and
\* leaves every message at its place in the transcript.
C20_FinalizedImmutable ==
    [][ /\ Len(messages') >= Len(messages)
        /\ \A i \in 1..Len(messages) :
            /\ messages'[i].id = messages[i].id
            /\ messages'[i].role = messages[i].role
            /\ ~messages[i].isPartial => messages'[i] = messages[i] ]_vars

\* a finalized message is followed by a message of the same role, which
\* the later fragments of that role went to
C20_Witness ==
    /\ Len(messages) >= 3
    /\ ~messages[1].isPartial
    /\ messages[2].role = messages[1].role
    /\ messages[1].text = << "a", "b" >>

----------------------------------------------------------------------------
(* Failures of the microphone and of the connection.                       *)

\* C21: once getUserMedia has rejected, the state is ERROR, no settle timer
\* is pending and no wake stimulus has been sent or handed over.
C21_MicDenialIsFinalError ==
    micStream = "denied"
        => /\ connectionState = "ERROR"
           /\ ~settleTimer
           /\ wakes = 0
           /\ Count(thenQueue, Wake) = 0

\* a resume() awaited by the open handler settles
ResumeStep == openPc \in { "resumeOut", "resumeIn" } /\ openPc' /= openPc

\* ... and it rejected: the context is not running afterwards
RejectedInOpen ==
    \/ openPc = "resumeOut" /\ outState' /= "running"
    \/ openPc = "resumeIn" /\ inState' /= "running"

C25_WakeAfterSettle ==
    (micStream = "live" /\ ~cleanup /\ transport = "open")
        ~> \/ cleanup
           \/ transport /= "open"
           \/ \E i \in 1..Len(sent) : sent[i] = Wake /\ isThinking

\* the wake stimulus is the first and only thing sent so far
C25_Witness ==
    /\ sent = << Wake >>
    /\ wakes = 1
    /\ isThinking
    /\ watchdog = Armed
    /\ micStream = "live"
    /\ connectionState = "CONNECTED"
    /\ transport = "open"
    /\ ~cleanup

\* the connection failed before onopen ran
FailedToOpen == openPc = "idle" /\ transport \in { "errored", "closed" }

\* the connection opened and has closed without a teardown, and the open
\* handler has finished
ClosedUnexpectedly ==
    openPc = "done" /\ transport = "closed" /\ ~cleanup

\* C23: a session whose connection failed to open is in state ERROR, one
\* whose opened connection closed unexpectedly is in state DISCONNECTED,
\* and a connection that has failed or closed is never connecting again.
C23_FailureEndsInErrorOrDisconnected ==
    /\ [](FailedToOpen => connectionState = "ERROR")
    /\ [](ClosedUnexpectedly => connectionState = "DISCONNECTED")
    /\ [][ (transport \in { "errored", "closed" })
            => (transport' \in { "errored", "closed" }) ]_vars

\* C29: the thinking flag is true in state CONNECTED only, and no wake
\* stimulus is sent in state DISCONNECTED or ERROR.
C29_ThinkingOnlyWhileConnected ==
    /\ [](isThinking => connectionState = "CONNECTED")
    /\ [][ (connectionState \in { "DISCONNECTED", "ERROR" })
            => wakes' = wakes ]_vars

----------------------------------------------------------------------------
(* A payload that fails to decode.                                         *)

\* C24: when the decode of a message fails, the state and the scheduler
\* are as the other fields of the message leave them: a turn-complete
\* signal is counted, an interruption flushes, and without an interruption
\* the active set and the cursor are unchanged.
C24_DecodeFailureDropsSegmentOnly ==
    [][ \A i \in 1..Len(pending) :
            (pending[i].audio = BadAudio /\ pending' = RemoveAt(pending, i))
                => /\ connectionState' = connectionState
                   /\ turnCount' = turnCount
                        + (IF pending[i].turnComplete THEN 1 ELSE 0)
                   /\ IF pending[i].interrupted
                      THEN sources' = {} /\ nextStartTime' = 0
                      ELSE sources' = sources
                           /\ nextStartTime' = nextStartTime ]_vars

----------------------------------------------------------------------------
(* Partial messages of the transcript.                                     *)

\* C30: at most one message per role is partial, and a partial message is
\* the last message of its role in the transcript.
C30_PartialIsLastOfItsRole ==
    \A i \in 1..Len(messages) :
        messages[i].isPartial
            => \A j \in (i + 1)..Len(messages) :
                   messages[j].role /= messages[i].role

----------------------------------------------------------------------------
(* Interruptions.                                                          *)

\* C26: after a message with interrupted set has been handled, the thinking
\* flag is false and no watchdog timer is pending, whatever other fields
\* the message carries.
C26_InterruptClearsThinking ==
    [][ flushes' /= flushes => (~isThinking' /\ ~watchdog'.armed) ]_vars

\* C27: no segment is started from a message that arrived before an
\* interruption that has been handled since, also when the handler of the
\* message was suspended at the decode when the interruption was handled.
C27_NoAudioFromBeforeInterrupt == ~lastSched.stale

----------------------------------------------------------------------------
(* The active set.                                                         *)

\* C28: the active set holds exactly the segments that were started and
\* have neither had their end notified nor been stopped by an interrupted
\* branch; the end notification of a segment removes that segment only,
\* and that of a segment already flushed changes nothing.
C28_ActiveSetExact ==
    /\ [](Ids(sources) = (1..nsegs) \ (endedSegs \cup flushedSegs))
    /\ [][ endedSegs' /= endedSegs
            => \A id \in endedSegs' \ endedSegs :
                /\ Ids(sources') = Ids(sources) \ { id }
                /\ id \in flushedSegs => sources' = sources ]_vars

\* one segment has ended, one was flushed and its end notification has
\* come since, and a third one, started after the flush, is active
C28_Witness ==
    /\ nsegs = 3
    /\ Cardinality(endedSegs) = 2
    /\ Cardinality(flushedSegs) = 1
    /\ flushedSegs \subseteq endedSegs
    /\ Cardinality(sources) = 1
    /\ ~cleanup

----------------------------------------------------------------------------
(* Progress: completing and leaving a session, and the lesson map.         *)

NoDuplicate(list) ==
    \A i \in 1..Len(list) : \A j \in 1..Len(list) :
        list[i] = list[j] => i = j

Elements(list) == { list[i] : i \in 1..Len(list) }

\* C31: when the completion callback fires for an active session, the
\* composite id of its step is in completedSteps afterwards, neither list
\* has a duplicate or has lost an element, and the active session is
\* cleared.
C31_CompletionRecordsStep ==
    [][ (~completed /\ completed')
            => /\ \A session \in activeSession :
                    Includes(userProfile'.completedSteps,
                             CompositeId(session.subject, session.step.id))
               /\ NoDuplicate(userProfile'.completedSteps)
               /\ NoDuplicate(userProfile'.completedSubjects)
               /\ Elements(userProfile.completedSteps)
                    \subseteq Elements(userProfile'.completedSteps)
               /\ Elements(userProfile.completedSubjects)
                    \subseteq Elements(userProfile'.completedSubjects)
               /\ activeSession /= {}
               /\ activeSession' = {} ]_vars

\* the six steps of the first subject and the subject itself are recorded,
\* and a completion has just cleared the active session
C31_Witness ==
    /\ completed
    /\ activeSession = {}
    /\ Len(userProfile.completedSteps) = 6
    /\ Len(userProfile.completedSubjects) = 1
    /\ turnCount = CompleteThreshold

\* C32: when the user leaves a session without completing it, the two
\* progress lists are unchanged and the active session is cleared,
\* whatever the turn count of the session was.
C32_ExitKeepsProgress ==
    [][ (activeSession /= {} /\ cleanup' /\ ~cleanup /\ ~completed')
            => /\ userProfile' = userProfile
               /\ activeSession' = {} ]_vars

\* a session that had passed the completion gate was left, with progress
\* recorded before it
C32_Witness ==
    /\ ~completed
    /\ cleanup
    /\ activeSession = {}
    /\ turnCount >= CompleteThreshold
    /\ Len(userProfile.completedSteps) = 2

\* the composite ids of the first n steps of the flattened curriculum
Prefix(n) ==
    { CompositeId(allSteps[k].subject, allSteps[k].step.id) : k \in 1..n }

\* C33: the step of the active session is unlocked, and the completed
\* steps are a prefix of the flattened curriculum.
C33_CompletedIsPrefix ==
    /\ \A session \in activeSession :
        \E index \in 0..(Len(allSteps) - 1) :
            /\ allSteps[index + 1] = session
            /\ isUnlocked(userProfile, index)
    /\ Elements(userProfile.completedSteps)
        = Prefix(Len(userProfile.completedSteps))

\* seven steps are completed and the third one is taken again
C33_Witness ==
    /\ Len(userProfile.completedSteps) = 7
    /\ activeSession = { allSteps[3] }
    /\ connectionState = "CONNECTED"

\* C34: every subject in completedSubjects has all its six steps in
\* completedSteps.
C34_CompletedSubjectsAreComplete ==
    \A i \in 1..Len(userProfile.completedSubjects) :
        LET steps == { k \in 1..Len(allSteps) :
                        allSteps[k].subject = userProfile.completedSubjects[i] }
        IN  /\ Cardinality(steps) = LastOrder
            /\ \A k \in steps :
                isCompleted(userProfile, allSteps[k].subject,
                            allSteps[k].step.id)

\* two subjects are completed and a session of the third one is running
C34_Witness ==
    /\ Len(userProfile.completedSubjects) = 2
    /\ Len(userProfile.completedSteps) = 12
    /\ activeSession = { allSteps[13] }

----------------------------------------------------------------------------
(* The ids of the messages.                                                *)

\* C35: every message of the transcript has an id different from that of
\* every other message.
C35_MessageIdsDistinct ==
    \A i \in 1..Len(messages) : \A j \in 1..Len(messages) :
        messages[i].id = messages[j].id => i = j

====
